---- MODULE Spec2Model ----
(***************************************************************************)
(* Model of jwtkms.PSSSigningMethod.Verify and localVerifyPSS              *)
(* (src/jwtkms/kms_pss_signingmethod.go).                                  *)
(*                                                                         *)
(* The cryptography is scaled down so that it can be computed: RSA moduli  *)
(* are 12 bits wide (a signature is 2 bytes, an encoded message 11 bits),  *)
(* the hash is 6 bits wide.  The structure of every conversion is kept:    *)
(* base64url packs 3 bytes into 4 characters, a signature is an integer    *)
(* below the modulus raised to the private exponent, EMSA-PSS is           *)
(* maskedDB || H || trailer with the salt length detected by the verifier. *)
(***************************************************************************)
EXTENDS Integers, Sequences, FiniteSets, TLC

NoKey == [family |-> "none"]

----------------------------------------------------------------------------
(* Bytes, base64url (jwt.DecodeSegment / jwt.EncodeSegment)                *)

Alphabet ==
  << "A","B","C","D","E","F","G","H","I","J","K","L","M","N","O","P",
     "Q","R","S","T","U","V","W","X","Y","Z","a","b","c","d","e","f",
     "g","h","i","j","k","l","m","n","o","p","q","r","s","t","u","v",
     "w","x","y","z","0","1","2","3","4","5","6","7","8","9","-","_" >>

AlphabetChars == { Alphabet[i] : i \in 1..64 }

CharValue(c) == (CHOOSE i \in 1..64 : Alphabet[i] = c) - 1

RECURSIVE EncodeSegment(_)
\* base64.RawURLEncoding.EncodeToString: 3 bytes -> 4 characters, a tail of
\* 1 byte -> 2 characters, of 2 bytes -> 3 characters, no padding.
EncodeSegment(bytes) ==
  IF Len(bytes) = 0 THEN << >>
  ELSE IF Len(bytes) = 1 THEN
    << Alphabet[(bytes[1] \div 4) + 1], Alphabet[((bytes[1] % 4) * 16) + 1] >>
  ELSE IF Len(bytes) = 2 THEN
    << Alphabet[(bytes[1] \div 4) + 1],
       Alphabet[((bytes[1] % 4) * 16) + (bytes[2] \div 16) + 1],
       Alphabet[((bytes[2] % 16) * 4) + 1] >>
  ELSE
    << Alphabet[(bytes[1] \div 4) + 1],
       Alphabet[((bytes[1] % 4) * 16) + (bytes[2] \div 16) + 1],
       Alphabet[((bytes[2] % 16) * 4) + (bytes[3] \div 64) + 1],
       Alphabet[(bytes[3] % 64) + 1] >> \o EncodeSegment(SubSeq(bytes, 4, Len(bytes)))

RECURSIVE DecodeChars(_)
\* The bytes of a well-formed character sequence; trailing bits of a partial
\* group are dropped.
DecodeChars(s) ==
  IF Len(s) < 2 THEN << >>
  ELSE
    LET a == CharValue(s[1])
        b == CharValue(s[2])
        b1 == (a * 4) + (b \div 16)
    IN IF Len(s) = 2 THEN << b1 >>
       ELSE
         LET c == CharValue(s[3])
             b2 == ((b % 16) * 16) + (c \div 4)
         IN IF Len(s) = 3 THEN << b1, b2 >>
            ELSE
              LET d == CharValue(s[4])
                  b3 == ((c % 4) * 64) + d
              IN << b1, b2, b3 >> \o DecodeChars(SubSeq(s, 5, Len(s)))

\* jwt.DecodeSegment: [ok, bytes]; fails on a character outside the base64url
\* alphabet (padding included) and on a length of 1 modulo 4.
DecodeSegment(s) ==
  IF (\E i \in 1..Len(s) : s[i] \notin AlphabetChars) \/ (Len(s) % 4 = 1)
  THEN [ok |-> FALSE, bytes |-> << >>]
  ELSE [ok |-> TRUE, bytes |-> DecodeChars(s)]

----------------------------------------------------------------------------
(* Hash (m.hash.New / Write / Sum) and RSA-PSS (crypto/rsa)                *)

RECURSIVE HashFrom(_, _)
HashFrom(h, data) ==
  IF Len(data) = 0 THEN h
  ELSE HashFrom(((h * 31) + data[1] + 7) % 64, Tail(data))

\* hasher.Write(data); hasher.Sum(nil)
HashSum(data) == HashFrom(0, data)

RECURSIVE ModExp(_, _, _)
ModExp(b, e, n) ==
  IF e = 0 THEN 1
  ELSE LET h == ModExp(b, e \div 2, n)
           sq == (h * h) % n
       IN IF e % 2 = 1 THEN (sq * b) % n ELSE sq

RECURSIVE BitXor(_, _, _)
BitXor(a, b, w) ==
  IF w = 0 THEN 0
  ELSE ((a + b) % 2) + (2 * BitXor(a \div 2, b \div 2, w - 1))

\* The mask generation function, from H to the 3 bits of DB.
MGF(H) == ((H * 5) + 3) % 8

\* The salt a data block DB = PS || 1 || salt carries (PS is zero bits).
SaltOfDB(db) ==
  IF db = 1 THEN << >>
  ELSE IF db < 4 THEN << db % 2 >>
  ELSE << (db \div 2) % 2, db % 2 >>

\* H = Hash(padding || mHash || salt)
PSSHash(mHash, salt) == HashSum(<< 0, mHash >> \o salt)

\* The data block DB = PS || 1 || salt of a salt of up to 2 bits.
DBOfSalt(salt) ==
  IF Len(salt) = 0 THEN 1
  ELSE IF Len(salt) = 1 THEN 2 + salt[1]
  ELSE 4 + (salt[1] * 2) + salt[2]

\* emsaPSSEncode: EM = maskedDB || H || trailer.
EMSAPSSEncode(mHash, salt) ==
  LET H == PSSHash(mHash, salt)
  IN (((BitXor(DBOfSalt(salt), MGF(H), 3) * 64) + H) * 4) + 2

\* emsaPSSVerify with PSSSaltLengthAuto: trailer, unmask, locate the
\* separator bit, recompute H.
EMSAPSSVerify(mHash, em) ==
  /\ em < 2048
  /\ em % 4 = 2
  /\ LET H == (em \div 4) % 64
         db == BitXor(em \div 256, MGF(H), 3)
     IN /\ db # 0
        /\ PSSHash(mHash, SaltOfDB(db)) = H

BytesToInt(bytes) == (bytes[1] * 256) + bytes[2]
IntToBytes(v) == << v \div 256, v % 256 >>

\* rsa.VerifyPSS(pub, hash, digest, sig, &rsa.PSSOptions{}): TRUE iff it
\* returns nil.  The signature must have the size of the modulus and be
\* below it.
VerifyPSS(pub, digest, sig) ==
  /\ Len(sig) = 2
  /\ BytesToInt(sig) < pub.n
  /\ EMSAPSSVerify(digest, ModExp(BytesToInt(sig), pub.e, pub.n))

\* rsa.SignPSS as the key holder (the remote service, or a local signer)
\* runs it, with the salt it drew.
SignPSS(priv, digest, salt) ==
  IntToBytes(ModExp(EMSAPSSEncode(digest, salt), priv.d, priv.n))

----------------------------------------------------------------------------
(* Keys, key encodings (crypto/x509) and the remote key service            *)

RSAKeyA == [n |-> 3233, e |-> 17, d |-> 2753]
RSAKeyB == [n |-> 3953, e |-> 17, d |-> 2477]
KeyPairs == { RSAKeyA, RSAKeyB }

\* *rsa.PublicKey of a key pair
PublicOf(priv) == [family |-> "RSA", n |-> priv.n, e |-> priv.e]

\* an *ecdsa.PublicKey, what x509 parses an elliptic-curve key into
ECPublicKey == [family |-> "ECDSA", x |-> 5, y |-> 9]

\* x509.MarshalPKIXPublicKey: SubjectPublicKeyInfo, algorithm and key body
MarshalPKIXPublicKey(pub) ==
  IF pub.family = "RSA"
  THEN [alg |-> "rsaEncryption", body |-> << pub.n, pub.e >>]
  ELSE [alg |-> "id-ecPublicKey", body |-> << pub.x, pub.y >>]

\* a response body cut short in transit
Truncated(der) == [alg |-> der.alg, body |-> SubSeq(der.body, 1, 1)]

\* x509.ParsePKIXPublicKey: [ok, key]
ParsePKIXPublicKey(der) ==
  IF Len(der.body) # 2 THEN [ok |-> FALSE, key |-> NoKey]
  ELSE IF der.alg = "rsaEncryption"
  THEN [ok |-> TRUE, key |-> [family |-> "RSA", n |-> der.body[1], e |-> der.body[2]]]
  ELSE IF der.alg = "id-ecPublicKey"
  THEN [ok |-> TRUE, key |-> [family |-> "ECDSA", x |-> der.body[1], y |-> der.body[2]]]
  ELSE [ok |-> FALSE, key |-> NoKey]

KeyIDs == { "k1", "k2" }
Clients == { "c1", "c2" }
Contexts == { "background", "canceled" }

\* The key each remote service holds under each key identifier.
KmsStore(client, keyID) ==
  IF client = "c1"
  THEN (IF keyID = "k1" THEN PublicOf(RSAKeyA) ELSE ECPublicKey)
  ELSE (IF keyID = "k1" THEN PublicOf(RSAKeyB) ELSE PublicOf(RSAKeyA))

\* Failures of a remote call under a live context.
TransportErrors == { "context deadline exceeded", "KMSInternalException" }

\* kmsClient.GetPublicKey(ctx, {KeyId}): the outcomes the service can produce.
\* A canceled context fails the call; otherwise the call fails in transit,
\* or returns the stored key's encoding, whole or cut short.
GetPublicKeyOutcomes(client, ctx, keyID) ==
  IF ctx = "canceled"
  THEN { [err |-> "context canceled", PublicKey |-> [alg |-> "", body |-> << >>]] }
  ELSE { [err |-> c, PublicKey |-> [alg |-> "", body |-> << >>]] : c \in TransportErrors }
       \cup { [err |-> "", PublicKey |-> MarshalPKIXPublicKey(KmsStore(client, keyID))],
              [err |-> "", PublicKey |-> Truncated(MarshalPKIXPublicKey(KmsStore(client, keyID)))] }

\* kmsClient.Verify(ctx, {KeyId, Message: digest, Signature, algorithm}).
KmsVerifyOutcomes(client, ctx, keyID, digest, sig) ==
  IF ctx = "canceled"
  THEN { [err |-> "context canceled", SignatureValid |-> FALSE] }
  ELSE { [err |-> c, SignatureValid |-> FALSE] : c \in TransportErrors }
       \cup { IF KmsStore(client, keyID).family # "RSA"
              THEN [err |-> "InvalidKeyUsageException", SignatureValid |-> FALSE]
              ELSE [err |-> "",
                    SignatureValid |-> VerifyPSS(KmsStore(client, keyID), digest, sig)] }

----------------------------------------------------------------------------
(* Errors                                                                  *)

Wrap(label, cause) == [label |-> label, cause |-> cause]
Nil == Wrap("", "")
ErrInvalidKeyType == Wrap("", "key is of invalid type")
ErrHashUnavailable == Wrap("", "the requested hash function is unavailable")
ErrSignatureInvalid == Wrap("", "signature is invalid")
ErrVerification == "crypto/rsa: verification error"
CorruptInputError == "illegal base64 data"
Asn1Error == "asn1: structure error"

----------------------------------------------------------------------------
(* State                                                                   *)

NumProcs == 2
Procs == 1..NumProcs

VARIABLES
  pubkeyCache,    \* the process-wide cache: a set of entries [id, key]
  hashAvailable,  \* m.hash.Available()
  pc,             \* where each caller is in Verify
  call,           \* arguments, locals and result of each caller's Verify
  returned,       \* history: <<key identifier, key>> parsed from GetPublicKey
  verified        \* history: identifiers with a successful local verify
                  \* since they were last evicted

vars == << pubkeyCache, hashAvailable, pc, call, returned, verified >>

\* pubkeyCache.Get(keyID): the cached key, NoKey when absent.
CacheGet(cache, keyID) ==
  IF \E en \in cache : en.id = keyID
  THEN (CHOOSE en \in cache : en.id = keyID).key
  ELSE NoKey

\* pubkeyCache.Add(keyID, key): overwrites the identifier's entry.
CacheAdd(cache, keyID, key) ==
  { en \in cache : en.id # keyID } \cup { [id |-> keyID, key |-> key] }

\* Key arguments of Verify: *Config, *rsa.PublicKey, and other types.
Config(keyID, remote, client, ctx) ==
  [type |-> "*Config", kmsKeyID |-> keyID, verifyWithKMS |-> remote,
   kmsClient |-> client, ctx |-> ctx]
RawKey(pub) == [type |-> "*rsa.PublicKey", key |-> pub]
OtherKeys == { [type |-> "string"], [type |-> "*ecdsa.PublicKey", key |-> ECPublicKey] }

IsConfig(keyConfig) == keyConfig.type = "*Config"

\* A caller outside Verify.  Beside the arguments, locals and result the
\* record counts the call's gateway calls and cache accesses, and notes
\* the gateway's reply (gwReply, gwErr), whether the call began after a
\* successful local verify for its key identifier (afterVerified) and what
\* the cache held for its identifier when it began (cachedAtStart; NoKey
\* again when the identifier is evicted before the call ends).
Idle ==
  [signingString |-> << >>, signature |-> << >>, keyConfig |-> [type |-> "none"],
   sig |-> << >>, hashedSigningString |-> 0, cachedKey |-> NoKey, err |-> Nil,
   nGetPublicKey |-> 0, nKmsVerify |-> 0, nKmsSign |-> 0,
   nCacheGet |-> 0, nCacheAdd |-> 0, gwReply |-> "none", gwErr |-> "",
   afterVerified |-> FALSE, cachedAtStart |-> NoKey]

Init ==
  /\ pubkeyCache = {}
  /\ hashAvailable \in BOOLEAN
  /\ pc = [p \in Procs |-> "idle"]
  /\ call = [p \in Procs |-> Idle]
  /\ returned = {}
  /\ verified = {}

\* m.fallbackSigningMethod.Verify: jwt.SigningMethodRSAPSS.Verify with a
\* *rsa.PublicKey.
FallbackVerify(signingString, signature, pub) ==
  LET dec == DecodeSegment(signature)
  IN IF ~dec.ok THEN Wrap("", CorruptInputError)
     ELSE IF ~hashAvailable THEN ErrHashUnavailable
     ELSE IF VerifyPSS(pub, HashSum(signingString), dec.bytes) THEN Nil
     ELSE Wrap("", ErrVerification)

\* NonConfigResult without the fallback to the standard verifier.
NonConfigResultNoFallback(signingString, signature, keyConfig) == ErrInvalidKeyType

\* lines 24-31: the result for a key argument that is not a *Config.
NonConfigResult(signingString, signature, keyConfig) ==
  IF keyConfig.type = "*rsa.PublicKey"
  THEN FallbackVerify(signingString, signature, keyConfig.key)
  ELSE ErrInvalidKeyType

\* VerifyChecks without the check of the decoding error.
VerifyChecksNoDecodeCheck(signature) ==
  IF ~hashAvailable THEN ErrHashUnavailable ELSE Nil

\* VerifyChecks with the hash asked for before the signature is decoded.
VerifyChecksHashFirst(signature) ==
  IF ~hashAvailable THEN ErrHashUnavailable
  ELSE IF ~DecodeSegment(signature).ok
  THEN Wrap("decoding signature", CorruptInputError)
  ELSE Nil

\* lines 33-40: the checks before the mode dispatch; Nil when they pass.
VerifyChecks(signature) ==
  IF ~DecodeSegment(signature).ok
  THEN Wrap("decoding signature", CorruptInputError)
  ELSE IF ~hashAvailable THEN ErrHashUnavailable
  ELSE Nil

\* HashedSigningString without hasher.Write: the digest of no input.
HashedSigningStringUnwritten(signingString) == HashSum(<< >>)

\* lines 42-44: the digest Verify hands on.
HashedSigningString(signingString) == HashSum(signingString)

\* ModeStep ignoring cfg.verifyWithKMS.
ModeStepAlwaysLocal(cfg) == "get"

\* lines 46-50: the mode dispatch.
ModeStep(cfg) == IF cfg.verifyWithKMS THEN "remote" ELSE "get"

\* FetchResult without the check of GetPublicKey's error: the empty reply
\* goes on to the parser.
FetchResultIgnoresError(out) ==
  LET parsed == ParsePKIXPublicKey(out.PublicKey)
  IN IF ~parsed.ok
     THEN [ret |-> TRUE, err |-> Wrap("parsing public key", Asn1Error), key |-> NoKey]
     ELSE [ret |-> FALSE, err |-> Nil, key |-> parsed.key]

\* FetchResult without the check of the parser's error: the nil key goes on
\* to the cache.
FetchResultNoParseCheck(out) ==
  IF out.err # ""
  THEN [ret |-> TRUE, err |-> Wrap("getting public key", out.err), key |-> NoKey]
  ELSE [ret |-> FALSE, err |-> Nil, key |-> ParsePKIXPublicKey(out.PublicKey).key]

\* lines 61-68: what localVerifyPSS makes of a GetPublicKey reply:
\* [ret, err, key], ret when it returns err.
FetchResult(out) ==
  IF out.err # ""
  THEN [ret |-> TRUE, err |-> Wrap("getting public key", out.err), key |-> NoKey]
  ELSE LET parsed == ParsePKIXPublicKey(out.PublicKey)
       IN IF ~parsed.ok
          THEN [ret |-> TRUE, err |-> Wrap("parsing public key", Asn1Error), key |-> NoKey]
          ELSE [ret |-> FALSE, err |-> Nil, key |-> parsed.key]

\* CacheKey with a slot of its own for the second gateway handle.
CacheKeyPerClient(cfg) ==
  IF cfg.kmsClient = "c1" THEN cfg.kmsKeyID
  ELSE CHOOSE k \in KeyIDs : k # cfg.kmsKeyID

\* lines 56 and 70: the key under which localVerifyPSS reads and writes
\* the cache.
CacheKey(cfg) == cfg.kmsKeyID

\* CacheMiss taking every lookup for a miss.
CacheMissAlways(cachedKey) == TRUE

\* line 57: the lookup found no key.
CacheMiss(cachedKey) == cachedKey = NoKey

\* FetchStep calling GetPublicKey again after a failure.
FetchStepRetry(r) == IF r.ret THEN "fetch" ELSE "add"

\* lines 61-70: where localVerifyPSS goes after the fetch: it returns the
\* error, or goes on to pubkeyCache.Add.
FetchStep(r) == IF r.ret THEN "done" ELSE "add"

\* CacheAfterAdd with the key's algorithm family checked before the Add.
CacheAfterAddRSAOnly(cache, keyID, key) ==
  IF key.family = "RSA" THEN CacheAdd(cache, keyID, key) ELSE cache

\* CacheAfterAdd without the call of pubkeyCache.Add.
CacheAfterAddSkipped(cache, keyID, key) == cache

\* line 70: the cache after the fetched key is added.
CacheAfterAdd(cache, keyID, key) == CacheAdd(cache, keyID, key)

\* LocalVerifyResult without the call of rsa.VerifyPSS.
LocalVerifyResultUnchecked(key, hashed, sig) ==
  IF key.family # "RSA" THEN Wrap("", "invalid key type for key") ELSE Nil

\* lines 73-82: the result for a resolved key.
LocalVerifyResult(key, hashed, sig) ==
  IF key.family # "RSA" THEN Wrap("", "invalid key type for key")
  ELSE IF ~VerifyPSS(key, hashed, sig)
  THEN Wrap("verifying signature locally", ErrVerification)
  ELSE Nil

\* verifyRSAOrPSS's result for the service's reply.
RemoteVerifyResult(out) ==
  IF out.err # "" THEN Wrap("verifying signature remotely", out.err)
  ELSE IF ~out.SignatureValid THEN ErrSignatureInvalid
  ELSE Nil

Finish(p, c, e) ==
  /\ call' = [call EXCEPT ![p] = [c EXCEPT !.err = e]]
  /\ pc' = [pc EXCEPT ![p] = "done"]

\* A local verify of key identifier k ended with result e.
NoteVerified(k, e) ==
  verified' = IF e = Nil THEN verified \cup { k } ELSE verified

\* PSSSigningMethod.Verify, lines 22-50, up to its first remote call or
\* cache access.
Verify(p, signingString, signature, keyConfig) ==
  /\ pc[p] = "idle"
  /\ LET c == [Idle EXCEPT !.signingString = signingString,
                           !.signature = signature,
                           !.keyConfig = keyConfig]
     IN IF ~IsConfig(keyConfig)
        THEN Finish(p, c, NonConfigResult(signingString, signature, keyConfig))
        ELSE IF VerifyChecks(signature) # Nil
        THEN Finish(p, c, VerifyChecks(signature))
        ELSE
          /\ call' = [call EXCEPT ![p] =
                 [c EXCEPT !.sig = DecodeSegment(signature).bytes,
                           !.hashedSigningString = HashedSigningString(signingString),
                           !.afterVerified = (ModeStep(keyConfig) = "get"
                                              /\ keyConfig.kmsKeyID \in verified),
                           !.cachedAtStart =
                              IF ModeStep(keyConfig) = "get"
                              THEN CacheGet(pubkeyCache, keyConfig.kmsKeyID)
                              ELSE NoKey]]
          /\ pc' = [pc EXCEPT ![p] = ModeStep(keyConfig)]
  /\ UNCHANGED << pubkeyCache, hashAvailable, returned, verified >>

\* A caller outside Verify calls it, with arguments of the given sets.
VerifyCall(p, signingStrings, signatures, keyArgs) ==
  /\ pc[p] = "idle"
  /\ \E s \in signingStrings, g \in signatures, k \in keyArgs : Verify(p, s, g, k)

\* verifyRSAOrPSS(cfg, m.algo, hashedSigningString, sig), line 47.
VerifyRSAOrPSS(p) ==
  /\ pc[p] = "remote"
  /\ LET c == call[p]
         cfg == c.keyConfig
     IN \E out \in KmsVerifyOutcomes(cfg.kmsClient, cfg.ctx, cfg.kmsKeyID,
                                     c.hashedSigningString, c.sig) :
          Finish(p, [c EXCEPT !.nKmsVerify = @ + 1,
                              !.gwErr = out.err,
                              !.gwReply = IF out.err # "" THEN "error"
                                          ELSE IF out.SignatureValid THEN "valid"
                                          ELSE "invalid"],
                 RemoteVerifyResult(out))
  /\ UNCHANGED << pubkeyCache, hashAvailable, returned, verified >>

\* localVerifyPSS, line 56: the cache lookup; on a hit, lines 73-82.
LocalGet(p) ==
  /\ pc[p] = "get"
  /\ LET c == [call[p] EXCEPT !.nCacheGet = @ + 1]
         k == CacheKey(c.keyConfig)
         cachedKey == CacheGet(pubkeyCache, k)
     IN IF CacheMiss(cachedKey)
        THEN /\ call' = [call EXCEPT ![p] = c]
             /\ pc' = [pc EXCEPT ![p] = "fetch"]
             /\ UNCHANGED verified
        ELSE LET e == LocalVerifyResult(cachedKey, c.hashedSigningString, c.sig)
             IN /\ Finish(p, [c EXCEPT !.cachedKey = cachedKey], e)
                /\ NoteVerified(k, e)
  /\ UNCHANGED << pubkeyCache, hashAvailable, returned >>

\* localVerifyPSS, lines 58-68: the remote fetch and the parse.
LocalFetch(p) ==
  /\ pc[p] = "fetch"
  /\ LET cfg == call[p].keyConfig
     IN \E out \in GetPublicKeyOutcomes(cfg.kmsClient, cfg.ctx, cfg.kmsKeyID) :
          LET parsed == ParsePKIXPublicKey(out.PublicKey)
              c == [call[p] EXCEPT !.nGetPublicKey = @ + 1,
                                   !.gwErr = out.err,
                                   !.gwReply = IF out.err # "" THEN "error"
                                               ELSE IF parsed.ok THEN "key"
                                               ELSE "garbled"]
              r == FetchResult(out)
          IN /\ IF FetchStep(r) = "done"
                THEN Finish(p, c, r.err)
                ELSE /\ call' = [call EXCEPT ![p] = [c EXCEPT !.cachedKey = r.key]]
                     /\ pc' = [pc EXCEPT ![p] = FetchStep(r)]
             /\ returned' = IF out.err = "" /\ parsed.ok
                            THEN returned \cup { << cfg.kmsKeyID, parsed.key >> }
                            ELSE returned
  /\ UNCHANGED << pubkeyCache, hashAvailable, verified >>

\* localVerifyPSS, line 70, then lines 73-82.
LocalAdd(p) ==
  /\ pc[p] = "add"
  /\ LET c == [call[p] EXCEPT !.nCacheAdd = @ + 1]
         k == CacheKey(c.keyConfig)
         e == LocalVerifyResult(c.cachedKey, c.hashedSigningString, c.sig)
     IN /\ pubkeyCache' = CacheAfterAdd(pubkeyCache, k, c.cachedKey)
        /\ Finish(p, c, e)
        /\ NoteVerified(k, e)
  /\ UNCHANGED << hashAvailable, returned >>

\* The caller takes the result; it may call again.
Return(p) ==
  /\ pc[p] = "done"
  /\ pc' = [pc EXCEPT ![p] = "idle"]
  /\ call' = [call EXCEPT ![p] = Idle]
  /\ UNCHANGED << pubkeyCache, hashAvailable, returned, verified >>

\* The cache drops an entry (its eviction policy).
Evict(k) ==
  /\ \E en \in pubkeyCache : en.id = k
  /\ pubkeyCache' = { en \in pubkeyCache : en.id # k }
  /\ verified' = verified \ { k }
  /\ call' = [p \in Procs |->
               IF /\ pc[p] # "done"
                  /\ IsConfig(call[p].keyConfig)
                  /\ call[p].keyConfig.kmsKeyID = k
               THEN [call[p] EXCEPT !.afterVerified = FALSE,
                                    !.cachedAtStart = NoKey]
               ELSE call[p]]
  /\ UNCHANGED << hashAvailable, pc, returned >>

----------------------------------------------------------------------------
(* Callers and their inputs                                                *)

\* Signing strings ("header.payload"), as bytes.
SigningStrings == { << 1, 2, 3 >>, << 1, 2, 4 >> }

\* The salts a signer draws.
Salts == { << 0, 0 >>, << 0, 1 >>, << 1, 0 >>, << 1, 1 >> }

\* The signatures of a signing string a key holder can produce.
SignaturesOf(signingString, priv) ==
  { SignPSS(priv, HashSum(signingString), salt) : salt \in Salts }

RECURSIVE Pow2(_)
Pow2(i) == IF i = 0 THEN 1 ELSE 2 * Pow2(i - 1)

\* bytes with bit i (0 the lowest) flipped
FlipBit(bytes, i) ==
  LET v == BytesToInt(bytes)
  IN IntToBytes(IF (v \div Pow2(i)) % 2 = 1 THEN v - Pow2(i) ELSE v + Pow2(i))

ZeroBytes(len) == [i \in 1..len |-> 0]

\* Strings that are not base64url: a foreign character, padding, a length
\* of 1 modulo 4.
MalformedSignatures ==
  { << "A", "!", "B" >>, << "A", "B", "C", "=" >>, << "A", "B", "C", "D", "E" >> }

Configs ==
  { Config(k, r, c, x) : k \in KeyIDs, r \in BOOLEAN, c \in Clients, x \in Contexts }

\* One caller, calling Verify again and again: every kind of key argument,
\* a genuine signature under each key pair, a damaged one, a malformed one.
CallerSignatures ==
  { EncodeSegment(SignPSS(priv, HashSum(<< 1, 2, 3 >>), << 0, 1 >>)) : priv \in KeyPairs }
  \cup { EncodeSegment(ZeroBytes(2)), << "A", "!", "B" >> }

CallerKeyArgs == Configs \cup { RawKey(PublicOf(RSAKeyA)) } \cup OtherKeys

Next ==
  \/ VerifyCall(1, SigningStrings, CallerSignatures, CallerKeyArgs)
  \/ VerifyRSAOrPSS(1)
  \/ LocalGet(1)
  \/ LocalFetch(1)
  \/ LocalAdd(1)
  \/ Return(1)
  \/ \E k \in KeyIDs : Evict(k)

Spec == Init /\ [][Next]_vars

\* One caller under one key identifier, with every genuine signature, every
\* single-bit damage of one, and the degenerate signatures.
GenuineSignatures ==
  UNION { SignaturesOf(s, priv) : s \in SigningStrings, priv \in KeyPairs }

FlippedSignatures == { FlipBit(g, i) : g \in GenuineSignatures, i \in 0..15 }

SigSignatures ==
  { EncodeSegment(b) : b \in GenuineSignatures \cup FlippedSignatures
                               \cup { ZeroBytes(2), << 7 >> } }
  \cup MalformedSignatures

SigKeyArgs ==
  { Config("k1", r, c, "background") : r \in BOOLEAN, c \in Clients }
  \cup { RawKey(PublicOf(priv)) : priv \in KeyPairs }

NextSig ==
  \/ VerifyCall(1, SigningStrings, SigSignatures, SigKeyArgs)
  \/ VerifyRSAOrPSS(1)
  \/ LocalGet(1)
  \/ LocalFetch(1)
  \/ LocalAdd(1)
  \/ Return(1)
  \/ \E k \in KeyIDs : Evict(k)

SpecSig == Init /\ [][NextSig]_vars

\* Concurrent callers verifying locally under one key identifier.
ConcSigningString == << 1, 2, 3 >>
ConcSignatures ==
  { EncodeSegment(SignPSS(RSAKeyA, HashSum(ConcSigningString), salt)) :
      salt \in { << 0, 1 >>, << 1, 0 >> } }
ConcKeyArgs == { Config("k1", FALSE, c, "background") : c \in Clients }

NextConc ==
  \/ \E p \in Procs :
       VerifyCall(p, { ConcSigningString }, ConcSignatures, ConcKeyArgs)
  \/ \E p \in Procs : LocalGet(p)
  \/ \E p \in Procs : LocalFetch(p)
  \/ \E p \in Procs : LocalAdd(p)
  \/ \E p \in Procs : Return(p)
  \/ \E k \in KeyIDs : Evict(k)

SpecConc == Init /\ [][NextConc]_vars

----------------------------------------------------------------------------
(* Properties                                                              *)

Done(p) == pc[p] = "done"
IsLocal(c) == IsConfig(c.keyConfig) /\ ~c.keyConfig.verifyWithKMS
IsRemote(c) == IsConfig(c.keyConfig) /\ c.keyConfig.verifyWithKMS
NoGatewayCall(c) == c.nGetPublicKey = 0 /\ c.nKmsVerify = 0 /\ c.nKmsSign = 0
NoCacheAccess(c) == c.nCacheGet = 0 /\ c.nCacheAdd = 0
DecodeErr == Wrap("decoding signature", CorruptInputError)
SignatureInvalid == Wrap("verifying signature locally", ErrVerification)

\* C1: Verify returns nil only when the standard verifier accepted (raw key),
\* the remote helper reported a valid signature (remote mode), or the decoded
\* signature passed the RSA-PSS check against the hash of the signing string
\* under an RSA key that GetPublicKey returned for the config's key
\* identifier (local mode); a failed gateway call never ends in nil.
VerifyNilOnlyOnSuccess ==
  \A p \in Procs :
    (Done(p) /\ call[p].err = Nil) =>
      LET c == call[p]
          dec == DecodeSegment(c.signature)
          digest == HashSum(c.signingString)
      IN \/ /\ c.keyConfig.type = "*rsa.PublicKey"
            /\ dec.ok
            /\ hashAvailable
            /\ VerifyPSS(c.keyConfig.key, digest, dec.bytes)
            /\ c.gwReply = "none"
         \/ /\ IsRemote(c)
            /\ dec.ok
            /\ hashAvailable
            /\ c.nKmsVerify = 1
            /\ c.gwReply = "valid"
         \/ /\ IsLocal(c)
            /\ dec.ok
            /\ hashAvailable
            /\ c.gwReply \in { "none", "key" }
            /\ << c.keyConfig.kmsKeyID, c.cachedKey >> \in returned
            /\ c.cachedKey.family = "RSA"
            /\ VerifyPSS(c.cachedKey, digest, dec.bytes)

\* C1 witness: a local verify that returned nil.
LocalVerifyReturnedNil ==
  \E p \in Procs : Done(p) /\ IsLocal(call[p]) /\ call[p].err = Nil

\* C2: with a key argument that is not a *Config, Verify returns the
\* standard verifier's result for a *rsa.PublicKey and ErrInvalidKeyType for
\* any other type, with no gateway call and no cache access.
NonConfigDispatch ==
  \A p \in Procs :
    (Done(p) /\ ~IsConfig(call[p].keyConfig)) =>
      LET c == call[p]
      IN /\ c.err = IF c.keyConfig.type = "*rsa.PublicKey"
                    THEN FallbackVerify(c.signingString, c.signature, c.keyConfig.key)
                    ELSE ErrInvalidKeyType
         /\ NoGatewayCall(c)
         /\ NoCacheAccess(c)

\* C2 witness: a raw key and a signature of its key pair verified, without
\* the gateway.
RawKeyVerified ==
  \E p \in Procs :
    /\ Done(p)
    /\ call[p].keyConfig.type = "*rsa.PublicKey"
    /\ call[p].err = Nil
    /\ NoGatewayCall(call[p])

\* C3: with a *Config and a signature that is not base64url, Verify fails
\* with the decoding error, having made no gateway call and no cache access;
\* no call with such a signature is ever in a remote call or at the cache.
MalformedSignatureFailsFirst ==
  \A p \in Procs :
    (IsConfig(call[p].keyConfig) /\ ~DecodeSegment(call[p].signature).ok) =>
      /\ Done(p)
      /\ call[p].err = DecodeErr
      /\ NoGatewayCall(call[p])
      /\ NoCacheAccess(call[p])

\* C3 witness: a malformed signature rejected in local mode while the
\* cache holds no key.
MalformedSignatureRejected ==
  \E p \in Procs :
    /\ Done(p)
    /\ IsLocal(call[p])
    /\ call[p].signature \in MalformedSignatures
    /\ call[p].err = DecodeErr
    /\ pubkeyCache = {}

\* C4: a local verify for a key identifier that starts after a successful
\* local verify for it, with no eviction of the identifier since, never gets
\* to GetPublicKey, whatever its signing string and signature.
SecondVerifyHitsCache ==
  \A p \in Procs :
    call[p].afterVerified =>
      /\ call[p].nGetPublicKey = 0
      /\ call[p].nCacheAdd = 0
      /\ pc[p] \in { "get", "done" }

\* C4 witness: such a second verify ended, with another result than the
\* first, having read the cache once.
SecondVerifyEnded ==
  \E p \in Procs :
    /\ Done(p)
    /\ call[p].afterVerified
    /\ call[p].nCacheGet = 1
    /\ call[p].err = SignatureInvalid

RECURSIVE SumGetPublicKey(_)
SumGetPublicKey(ps) ==
  IF ps = {} THEN 0
  ELSE LET p == CHOOSE q \in ps : TRUE
       IN call[p].nGetPublicKey + SumGetPublicKey(ps \ { p })

\* The encoded signatures of each signing string under each key pair.
GenuineEncoded ==
  [priv \in KeyPairs |->
    [s \in SigningStrings |-> { EncodeSegment(g) : g \in SignaturesOf(s, priv) }]]

GenuineUnder(c, priv) ==
  /\ c.signingString \in SigningStrings
  /\ c.signature \in GenuineEncoded[priv][c.signingString]

\* C5: when all callers have ended local verifies for one key identifier with
\* signatures of the signing string under the key pair the gateway holds,
\* every GetPublicKey call returned that key and the hash the signatures
\* were made with is available, all of them returned nil and GetPublicKey
\* was called at most once per call, at most N times in total.
ConcurrentVerifiesSucceed ==
  /\ \A p \in Procs : call[p].nGetPublicKey <= 1
  /\ ( ( /\ \A p \in Procs : /\ Done(p)
                             /\ IsLocal(call[p])
                             /\ call[p].keyConfig.kmsKeyID = "k1"
                             /\ GenuineUnder(call[p], RSAKeyA)
                             /\ call[p].gwReply \in { "none", "key" }
         /\ returned \subseteq { << "k1", PublicOf(RSAKeyA) >> }
         /\ hashAvailable )
       => /\ \A p \in Procs : call[p].err = Nil
          /\ SumGetPublicKey(Procs) <= NumProcs )

\* C5 witness: all callers ended with nil, their signatures pairwise
\* distinct, each having fetched the key itself.
AllFetchedAndSucceeded ==
  /\ \A p \in Procs : Done(p) /\ call[p].err = Nil /\ call[p].nGetPublicKey = 1
  /\ \A p, q \in Procs : p # q => call[p].signature # call[q].signature
  /\ returned = { << "k1", PublicOf(RSAKeyA) >> }

\* C6: a signature of the signing string under a key pair, made with the
\* hash the process has available, is accepted by Verify with a *Config: in
\* remote mode when the service holds that key and answers, in local mode
\* when the key resolved for the identifier is that key pair's public key.
RoundTrip ==
  \A p \in Procs : \A priv \in KeyPairs :
    (Done(p) /\ IsConfig(call[p].keyConfig) /\ hashAvailable
       /\ GenuineUnder(call[p], priv)) =>
      LET c == call[p]
          cfg == c.keyConfig
      IN /\ ( /\ IsRemote(c)
              /\ KmsStore(cfg.kmsClient, cfg.kmsKeyID) = PublicOf(priv)
              /\ c.gwReply # "error" ) => c.err = Nil
         /\ ( /\ IsLocal(c)
              /\ c.cachedKey = PublicOf(priv) ) => c.err = Nil

\* C6 witness: a genuine signature accepted in local mode after a fetch of
\* the key.
RoundTripLocal ==
  \E p \in Procs : \E priv \in KeyPairs :
    /\ Done(p)
    /\ IsLocal(call[p])
    /\ GenuineUnder(call[p], priv)
    /\ call[p].nGetPublicKey = 1
    /\ call[p].cachedKey = PublicOf(priv)
    /\ call[p].err = Nil

PrivOf(pub) == CHOOSE priv \in KeyPairs : PublicOf(priv) = pub

\* Every salt a verifier detecting the salt length accepts.
AnySalts == { << >>, << 0 >>, << 1 >> } \cup Salts

\* The signatures of a signing string that exist under a public key.
ValidSignatures(signingString, pub) ==
  { SignPSS(PrivOf(pub), HashSum(signingString), salt) : salt \in AnySalts }

\* C7: in local mode, with an RSA key resolved, a decodable signature that is
\* no signature of the signing string under that key, and in particular a
\* signature with one bit flipped and the all-zero signature, gets
\* "verifying signature locally", on a cache hit and after a fetch alike.
DamagedSignatureRejected ==
  \A p \in Procs :
    (Done(p) /\ IsLocal(call[p]) /\ hashAvailable
       /\ DecodeSegment(call[p].signature).ok
       /\ call[p].cachedKey.family = "RSA") =>
      LET c == call[p]
          bytes == DecodeSegment(c.signature).bytes
          valid == ValidSignatures(c.signingString, c.cachedKey)
      IN /\ bytes \notin valid => c.err = SignatureInvalid
         /\ (\E g \in valid : \E i \in 0..15 : bytes = FlipBit(g, i))
              => c.err = SignatureInvalid
         /\ bytes = ZeroBytes(2) => c.err = SignatureInvalid

\* C7 witness: a signature with one bit flipped rejected against the cached
\* key.
FlippedSignatureRejectedOnHit ==
  \E p \in Procs :
    /\ Done(p)
    /\ IsLocal(call[p])
    /\ call[p].nCacheGet = 1
    /\ call[p].nGetPublicKey = 0
    /\ call[p].cachedKey.family = "RSA"
    /\ \E g \in SignaturesOf(call[p].signingString, PrivOf(call[p].cachedKey)) :
         \E i \in 0..15 : DecodeSegment(call[p].signature).bytes = FlipBit(g, i)
    /\ call[p].err = SignatureInvalid

\* C8: a Verify in remote mode never calls GetPublicKey and never reads or
\* writes the cache; once past the checks it calls the remote verify once
\* and returns its outcome.
RemoteModeLeavesCacheAlone ==
  \A p \in Procs :
    IsRemote(call[p]) =>
      LET c == call[p]
      IN /\ c.nGetPublicKey = 0
         /\ NoCacheAccess(c)
         /\ pc[p] \in { "remote", "done" }
         /\ (Done(p) /\ DecodeSegment(c.signature).ok /\ hashAvailable) =>
              /\ c.nKmsVerify = 1
              /\ c.gwReply = "valid" => c.err = Nil
              /\ c.gwReply = "invalid" => c.err = ErrSignatureInvalid
              /\ c.gwReply = "error" =>
                   c.err = Wrap("verifying signature remotely", c.gwErr)
              /\ c.gwReply # "none"

\* C8 witness: a remote verify ended while the cache held a key for its
\* identifier.
RemoteVerifiedBesideCache ==
  \E p \in Procs :
    /\ Done(p)
    /\ IsRemote(call[p])
    /\ call[p].nKmsVerify = 1
    /\ \E en \in pubkeyCache : en.id = call[p].keyConfig.kmsKeyID

\* C9: the cache holds at most one entry per key identifier, every entry is
\* a parsed key that GetPublicKey returned for its identifier, and so is
\* every key a caller got from the cache.
CacheEntriesWhole ==
  /\ \A e1, e2 \in pubkeyCache : e1.id = e2.id => e1 = e2
  /\ \A en \in pubkeyCache :
       /\ en.id \in KeyIDs
       /\ en.key.family \in { "RSA", "ECDSA" }
       /\ << en.id, en.key >> \in returned
  /\ \A p \in Procs :
       (IsLocal(call[p]) /\ pc[p] = "done" /\ call[p].nGetPublicKey = 0
          /\ call[p].nCacheGet = 1) =>
         << call[p].keyConfig.kmsKeyID, call[p].cachedKey >> \in returned

\* C9 witness: two callers missed, fetched different keys and both added;
\* the cache holds one of the two.
LastWriterWon ==
  \E p, q \in Procs :
    /\ Done(p) /\ Done(q)
    /\ call[p].nCacheAdd = 1 /\ call[q].nCacheAdd = 1
    /\ call[p].keyConfig.kmsKeyID = call[q].keyConfig.kmsKeyID
    /\ call[p].cachedKey # call[q].cachedKey
    /\ \E en \in pubkeyCache : en.id = call[p].keyConfig.kmsKeyID

\* C10: a failed GetPublicKey ends the local verify with "getting public
\* key" wrapping the gateway's error; "verifying signature locally" is returned
\* only for a key that was resolved and a signature that does not verify
\* under it, and such a mismatch never gets another label.
GatewayFailureDistinct ==
  \A p \in Procs :
    (Done(p) /\ IsLocal(call[p])) =>
      LET c == call[p]
      IN /\ c.gwReply = "error" =>
              /\ c.gwErr # ""
              /\ c.err = Wrap("getting public key", c.gwErr)
         /\ (c.nGetPublicKey = 1 /\ c.keyConfig.ctx = "canceled") =>
              c.err = Wrap("getting public key", "context canceled")
         /\ c.err.label = "verifying signature locally" =>
              /\ c.gwReply \in { "none", "key" }
              /\ c.cachedKey.family = "RSA"
              /\ ~VerifyPSS(c.cachedKey, HashSum(c.signingString), c.sig)
         /\ (c.cachedKey.family = "RSA"
               /\ ~VerifyPSS(c.cachedKey, HashSum(c.signingString), c.sig)) =>
              c.err = SignatureInvalid

\* C10 witness: a local verify under a canceled context ended with the
\* gateway's error.
CanceledFetchSurfaced ==
  \E p \in Procs :
    /\ Done(p)
    /\ IsLocal(call[p])
    /\ call[p].gwReply = "error"
    /\ call[p].err = Wrap("getting public key", "context canceled")

\* The cache holds an entry for key identifier k.
HasEntry(k) == \E en \in pubkeyCache : en.id = k

\* C11: a local verify whose GetPublicKey failed ended with "getting public
\* key", one whose reply did not parse with "parsing public key"; in both
\* cases it made no Add and the cache holds no entry for its key identifier;
\* a local verify that begins while the cache holds no entry for its
\* identifier and gets to the lookup calls GetPublicKey (one caller).
FailedResolutionLeavesCache ==
  \A p \in Procs :
    (Done(p) /\ IsLocal(call[p])) =>
      LET c == call[p]
      IN /\ c.gwReply = "error" =>
              /\ c.err = Wrap("getting public key", c.gwErr)
              /\ c.nCacheAdd = 0
              /\ ~HasEntry(c.keyConfig.kmsKeyID)
         /\ c.gwReply = "garbled" =>
              /\ c.err = Wrap("parsing public key", Asn1Error)
              /\ c.nCacheAdd = 0
              /\ ~HasEntry(c.keyConfig.kmsKeyID)
         /\ (c.nCacheGet = 1 /\ c.cachedAtStart = NoKey) => c.nGetPublicKey = 1

\* C11 witness: a reply that did not parse ended a local verify while the
\* cache held a key for the other identifier and none for the call's.
GarbledReplyNotCached ==
  \E p \in Procs :
    /\ Done(p)
    /\ IsLocal(call[p])
    /\ call[p].gwReply = "garbled"
    /\ call[p].err = Wrap("parsing public key", Asn1Error)
    /\ ~HasEntry(call[p].keyConfig.kmsKeyID)
    /\ \E en \in pubkeyCache :
         en.id # call[p].keyConfig.kmsKeyID /\ << en.id, en.key >> \in returned

\* C12: Verify reports the first failing check in the order key type,
\* signature decoding, hash availability: a key that is neither *Config nor
\* *rsa.PublicKey gets ErrInvalidKeyType whatever the signature; a *Config
\* with a malformed signature gets the decoding error whether or not the hash
\* is available; a *Config with a well-formed signature and an unavailable
\* hash gets ErrHashUnavailable in either mode, and such a call is never in
\* a remote call or at the cache.
ChecksInOrder ==
  \A p \in Procs :
    LET c == call[p]
        dec == DecodeSegment(c.signature)
    IN /\ (Done(p) /\ c.keyConfig \in OtherKeys) => c.err = ErrInvalidKeyType
       /\ (Done(p) /\ IsConfig(c.keyConfig) /\ ~dec.ok) => c.err = DecodeErr
       /\ (IsConfig(c.keyConfig) /\ dec.ok /\ ~hashAvailable) =>
            /\ Done(p)
            /\ c.err = ErrHashUnavailable
            /\ NoGatewayCall(c)
            /\ NoCacheAccess(c)

\* C12 witness: a *Config with a malformed signature got the decoding error
\* while the hash was unavailable.
DecodeErrorBeforeHash ==
  \E p \in Procs :
    /\ Done(p)
    /\ IsConfig(call[p].keyConfig)
    /\ ~DecodeSegment(call[p].signature).ok
    /\ ~hashAvailable
    /\ call[p].err = DecodeErr

GatewayCalls(c) == c.nGetPublicKey + c.nKmsVerify + c.nKmsSign

\* C13: a Verify call makes at most one gateway call: none with a key that
\* is not a *Config or when an early check fails, no remote Verify or Sign
\* in local mode, no GetPublicKey when the call began with a key cached for
\* its identifier (one caller); a call whose gateway call failed has ended,
\* with that one call made and the gateway's error returned.
NoInternalRetry ==
  \A p \in Procs :
    LET c == call[p]
    IN /\ GatewayCalls(c) <= 1
       /\ ~IsConfig(c.keyConfig) => NoGatewayCall(c)
       /\ (IsConfig(c.keyConfig) /\ VerifyChecks(c.signature) # Nil) =>
            NoGatewayCall(c)
       /\ IsLocal(c) => (c.nKmsVerify = 0 /\ c.nKmsSign = 0)
       /\ (IsLocal(c) /\ c.cachedAtStart # NoKey) => c.nGetPublicKey = 0
       /\ c.gwReply = "error" =>
            /\ Done(p)
            /\ GatewayCalls(c) = 1
            /\ c.err.cause = c.gwErr

\* C13 witness: a local verify ended after its one GetPublicKey call failed
\* in transport.
FailedFetchNotRetried ==
  \E p \in Procs :
    /\ Done(p)
    /\ IsLocal(call[p])
    /\ call[p].gwErr \in TransportErrors
    /\ call[p].nGetPublicKey = 1
    /\ call[p].err = Wrap("getting public key", call[p].gwErr)

\* C14: with one caller, a step that performs an Add for a key identifier
\* starts with no entry for it in the cache, and a step that starts and ends
\* with an entry for an identifier leaves that entry's key as it was: only
\* an eviction ends an entry, whatever the gateway would return now.
CacheWrittenOnlyOnMiss ==
  [][ /\ \A p \in Procs :
           call'[p].nCacheAdd > call[p].nCacheAdd =>
             ~HasEntry(call[p].keyConfig.kmsKeyID)
      /\ \A k \in KeyIDs :
           (HasEntry(k) /\ \E en \in pubkeyCache' : en.id = k) =>
             CacheGet(pubkeyCache', k) = CacheGet(pubkeyCache, k) ]_vars

\* C14 witness: a local verify found a key cached, ended without an Add and
\* left the entry in place, while its gateway holds another key for the
\* identifier.
HitLeftEntryInPlace ==
  \E p \in Procs :
    /\ Done(p)
    /\ IsLocal(call[p])
    /\ call[p].cachedAtStart # NoKey
    /\ call[p].nCacheGet = 1
    /\ call[p].nCacheAdd = 0
    /\ CacheGet(pubkeyCache, call[p].keyConfig.kmsKeyID) = call[p].cachedAtStart
    /\ KmsStore(call[p].keyConfig.kmsClient, call[p].keyConfig.kmsKeyID)
         # call[p].cachedAtStart

KeyTypeError == Wrap("", "invalid key type for key")

\* C15: a local verify that fetched a well-formed key of another family
\* than RSA ended with "invalid key type for key", and the step that ended
\* it left that key in the cache under its identifier; a local verify that
\* begins while the cache holds such a key for its identifier (and ends
\* before the identifier is evicted) never gets to GetPublicKey, makes no
\* Add and ends with the same error (one caller).
NonRSAKeyStaysCached ==
  /\ [](\A p \in Procs :
          LET c == call[p]
          IN /\ (Done(p) /\ IsLocal(c) /\ c.gwReply = "key"
                    /\ c.cachedKey.family # "RSA") =>
                  (c.err = KeyTypeError /\ c.nCacheAdd = 1)
             /\ (IsLocal(c) /\ c.cachedAtStart.family = "ECDSA") =>
                  /\ c.nGetPublicKey = 0
                  /\ c.nCacheAdd = 0
                  /\ pc[p] \in { "get", "done" }
                  /\ Done(p) => (c.err = KeyTypeError
                                   /\ c.cachedKey = c.cachedAtStart))
  /\ [][ \A p \in Procs :
           (pc[p] = "add" /\ pc'[p] # "add"
              /\ call[p].cachedKey.family # "RSA") =>
             /\ pc'[p] = "done"
             /\ call'[p].err = KeyTypeError
             /\ CacheGet(pubkeyCache', call[p].keyConfig.kmsKeyID)
                  = call[p].cachedKey ]_vars

\* C15 witness: a local verify found the non-RSA key cached and failed with
\* the key-type error without a GetPublicKey call.
NonRSAKeyHit ==
  \E p \in Procs :
    /\ Done(p)
    /\ IsLocal(call[p])
    /\ call[p].cachedAtStart = ECPublicKey
    /\ call[p].nCacheGet = 1
    /\ call[p].nGetPublicKey = 0
    /\ call[p].err = KeyTypeError

\* C16: the step that ends a local verify after a fetch leaves the fetched
\* key in the cache under its identifier also when the result is
\* "verifying signature locally"; a local verify that begins while the cache
\* holds an RSA key for its identifier (and is not overtaken by an eviction)
\* never gets to GetPublicKey (one caller).
PopulationIgnoresOutcome ==
  /\ [](\A p \in Procs :
          (IsLocal(call[p]) /\ call[p].cachedAtStart.family = "RSA") =>
            /\ call[p].nGetPublicKey = 0
            /\ pc[p] \in { "get", "done" })
  /\ [][ \A p \in Procs :
           (pc[p] = "add" /\ pc'[p] = "done"
              /\ call'[p].err = SignatureInvalid) =>
             /\ call'[p].nGetPublicKey = 1
             /\ call'[p].nCacheAdd = 1
             /\ CacheGet(pubkeyCache', call[p].keyConfig.kmsKeyID)
                  = call[p].cachedKey ]_vars

\* C16 witness: a local verify found a key cached and made no GetPublicKey
\* call, the entry is still there and no local verify for the identifier
\* has succeeded since the identifier's last eviction: the key was cached by
\* a verify that failed.
HitAfterRejectedVerify ==
  \E p \in Procs :
    /\ Done(p)
    /\ IsLocal(call[p])
    /\ call[p].cachedAtStart.family = "RSA"
    /\ call[p].nCacheGet = 1
    /\ call[p].nGetPublicKey = 0
    /\ call[p].err = SignatureInvalid
    /\ HasEntry(call[p].keyConfig.kmsKeyID)
    /\ call[p].keyConfig.kmsKeyID \notin verified

\* C17: a local verify that begins while the cache holds a key for its key
\* identifier (and is not overtaken by an eviction) never calls
\* GetPublicKey and ends with the result of checking its signature against
\* that key, whatever its gateway handle and context: also when its own
\* gateway holds another key for the identifier or would fail (one caller).
CacheKeyedByIdentifierOnly ==
  \A p \in Procs :
    (IsLocal(call[p]) /\ call[p].cachedAtStart # NoKey) =>
      LET c == call[p]
      IN /\ c.nGetPublicKey = 0
         /\ c.gwReply = "none"
         /\ Done(p) =>
              /\ c.cachedKey = c.cachedAtStart
              /\ c.err = LocalVerifyResult(c.cachedAtStart,
                                           HashSum(c.signingString), c.sig)

\* C17 witness: a local verify under a canceled context, whose gateway
\* holds another key for the identifier, returned nil against the key that
\* was cached through another configuration.
ForeignConfigUsedCachedKey ==
  \E p \in Procs :
    /\ Done(p)
    /\ IsLocal(call[p])
    /\ call[p].keyConfig.ctx = "canceled"
    /\ call[p].cachedAtStart.family = "RSA"
    /\ KmsStore(call[p].keyConfig.kmsClient, call[p].keyConfig.kmsKeyID)
         # call[p].cachedAtStart
    /\ call[p].nGetPublicKey = 0
    /\ call[p].err = Nil

====
